---- MODULE Spec2Model ----
(***************************************************************************)
(* Model of vesper-lib (src/src/pool-methods.js).                          *)
(*                                                                         *)
(* Spec models the write operations: the construction of the transaction   *)
(* step lists (deposit, approveAndDeposit, rebalance, migrate), the permit *)
(* proxy of migrate, the parsing of the receipts into an operation result, *)
(* and the transaction sequencer that executes the step lists.             *)
(*                                                                         *)
(* SpecCalc models the read methods and the pure computations: each action *)
(* is the first call of a method on a new instance, with the answers of    *)
(* the ledger as its inputs.                                               *)
(*                                                                         *)
(* The sequencer (./exec-transactions) and the unit converter (./utils)    *)
(* are required by pool-methods.js but their files are not part of the     *)
(* sources at hand; they are modelled from sections 4.4 and 4.1/7 of the   *)
(* specification.                                                          *)
(***************************************************************************)
EXTENDS Integers, Sequences, FiniteSets, TLC

VARIABLES
  isToken,          \* pool-methods.js:68    asset !== 'ETH'
  allowance,        \* on-chain allowance of the sender for the pool
  allowanceReads,   \* number of allowance(owner, spender).call() made
  allowanceSeen,    \* the allowance isApprovalNeeded got (Undefined: none)
  op,               \* the write operation invoked ("none" before the call)
  amount,           \* amount of the operation (deposit: given by the caller)
  approveAmount,    \* approve amount given to approveAndDeposit
  gasOpt,           \* transactionOptions.gas (Undefined when not given)
  pc,               \* stage of the operation
  txs,              \* the step list the operation built
  idx,              \* 1-based index of the step being executed
  gasLimit,         \* gas limit resolved for the current step
  estimateCalls,    \* sequence of step indexes whose gas was estimated
  submitted,        \* sequence of step indexes handed to method.send
  transactionsData, \* outcomes {transaction, receipt}, oldest first
  result,           \* the operation result (NoResult until completed)
  error,            \* the failure of the operation (NoError until it fails)
  errorListeners,   \* number of listeners of the emitter's error event
  events,           \* names of the events emitted so far
  promise,          \* state of the returned completion
  vakAllowance,     \* allowance of the migration helper on the pool token
  deadline,         \* pool-methods.js:977  deadline of the permit proxy
  recordedSignature,\* pool-methods.js:979  signature the proxy recorded
  signCalls,        \* number of signPermit calls made
  methodCalls,      \* method calls the proxy built, oldest first
  calcOp,           \* the read method or computation called last
  calcIn,           \* its inputs: arguments and answers of the ledger
  calcOut,          \* what it resolved to, or its rejection
  proxies           \* the permit proxies created side by side

vars == <<isToken, allowance, allowanceReads, allowanceSeen, op, amount,
          approveAmount, gasOpt, pc, txs, idx, gasLimit, estimateCalls, submitted,
          transactionsData, result, error, errorListeners, events, promise,
          vakAllowance, deadline, recordedSignature, signCalls, methodCalls,
          calcOp, calcIn, calcOut, proxies>>

----------------------------------------------------------------------------
(* Bounds of the model *)

MaxAmount == 2
MaxGasUsed == 2
MaxGasPrice == 2
MaxEstimate == 2
MaxListeners == 1
MaxTime == 1
TokenDecimals == 3

(* A value a JavaScript expression leaves undefined *)
Undefined == 0 - 1

Amounts == 1..MaxAmount

(* Readings of the clock, in seconds *)
Times == 0..MaxTime

(* the permit proxies that live side by side *)
MaxProxies == 2

----------------------------------------------------------------------------
(* Addresses.  Addresses are compared after toLowerCase(): the pool address *)
(* is held in checksum case, logs may carry it in lower case.              *)

poolAddress == "0xPool"

(* the pool that supersedes this one, the target of a migration *)
supersededBy == "0xNext"

toLowerCase(a) ==
  CASE a = "0xPool" -> "0xpool"
    [] a = "0xOther" -> "0xother"
    [] a = "0xNext" -> "0xnext"
    [] OTHER -> a

----------------------------------------------------------------------------
(* Expected gas per transaction type *)

expectedGasForApproval == 66000
expectedGasForDeposit == 155000
expectedGasForMigrate == 350000
expectedGasForRebalance == 825000
expectedGasForWithdraw == 120000

----------------------------------------------------------------------------
(* Receipts.  receipt.events is modelled as the sequence of the decoded     *)
(* logs, each [name, address, value]; receipt.events[eventName] is the      *)
(* subsequence with that name, undefined when it is empty.                 *)

EventLists ==
  { <<>>,
    << [name |-> "Deposit", address |-> "0xpool", value |-> 5] >>,
    << [name |-> "Deposit", address |-> "0xOther", value |-> 7] >>,
    << [name |-> "Deposit", address |-> "0xOther", value |-> 7],
       [name |-> "Deposit", address |-> "0xPool", value |-> 5] >>,
    << [name |-> "Transfer", address |-> "0xPool", value |-> 6] >>,
    << [name |-> "Approval", address |-> "0xOther", value |-> 9] >>,
    << [name |-> "Withdraw", address |-> "0xPool", value |-> 4],
       [name |-> "Deposit", address |-> "0xnext", value |-> 3] >> }

EventsNamed(receipt, eventName) ==
  SelectSeq(receipt.events, LAMBDA e : e.name = eventName)

TypeError == [threw |-> TRUE, value |-> Undefined]

Returned(v) == [threw |-> FALSE, value |-> v]

(* pool-methods.js:24-30.  [].concat(undefined) is [undefined], and the     *)
(* filter (or the map) dereferences that undefined element.                *)
findReturnValue(receipt, eventName, address) ==
  LET named == EventsNamed(receipt, eventName)
      kept == SelectSeq(named,
                LAMBDA e : address = "" \/
                           toLowerCase(e.address) = toLowerCase(address))
  IN  IF named = <<>> THEN TypeError
      ELSE IF kept = <<>> THEN Returned(Undefined)
      ELSE Returned(kept[1].value)

(* ./utils fromUnit: a malformed amount is an InvalidAmount failure *)
fromUnitThrows(value) == value = Undefined

----------------------------------------------------------------------------
(* Step lists *)

Step(method, arg, value, suffix, gas) ==
  [method |-> method, arg |-> arg, value |-> value, suffix |-> suffix,
   gas |-> gas]

ApproveStep(amt) ==
  Step("approve", amt, Undefined, "approve", expectedGasForApproval)

DepositStep(token, amt) ==
  IF token
  THEN Step("deposit", amt, Undefined, "deposit", expectedGasForDeposit)
  ELSE Step("deposit", Undefined, amt, "deposit", expectedGasForDeposit)

(* variant: lte in place of lt *)
AllowanceNotAbove(allow, amt) == allow <= amt

(* pool-methods.js:874  Big(allowance).lt(amount) *)
AllowanceTooLow(allow, amt) == allow < amt

(* pool-methods.js:851-882 *)
isApprovalNeeded(token, allow, amt) ==
  IF token THEN AllowanceTooLow(allow, amt) ELSE FALSE

(* variant: the deposit step pushed before the approve step *)
DepositTxsDepositFirst(token, approvalNeeded, amt) ==
  << DepositStep(token, amt) >>
    \o (IF approvalNeeded THEN << ApproveStep(amt) >> ELSE <<>>)

(* pool-methods.js:1024-1049 *)
DepositTxs(token, approvalNeeded, amt) ==
  (IF approvalNeeded THEN << ApproveStep(amt) >> ELSE <<>>)
    \o << DepositStep(token, amt) >>

(* pool-methods.js:1349-1372.  The asset contract of an ETH pool is         *)
(* undefined (contracts.js:60-73), so assetContract.methods throws.        *)
ApproveAndDepositBuilds(token) == token

ApproveAndDepositTxs(token, approveAmt, depositAmt) ==
  << ApproveStep(approveAmt), DepositStep(token, depositAmt) >>

(* pool-methods.js:1209-1215 *)
RebalanceTxs ==
  << Step("rebalance", Undefined, Undefined, "rebalance",
          expectedGasForRebalance) >>

----------------------------------------------------------------------------
(* Permit signatures.  A string of hexadecimal digits is modelled as the    *)
(* sequence of its characters.                                             *)

HexDigits ==
  << "0", "1", "2", "3", "4", "5", "6", "7",
     "8", "9", "a", "b", "c", "d", "e", "f" >>

HexValue(c) == (CHOOSE i \in 1..16 : HexDigits[i] = c) - 1

HexPrefix == << "0", "x" >>

(* String.prototype.slice(begin, end) for 0 <= begin, end *)
slice(str, begin, end) ==
  SubSeq(str, begin + 1, IF end < Len(str) THEN end ELSE Len(str))

RECURSIVE HexNumber(_)
(* the value of a string of hexadecimal digits *)
HexNumber(digits) ==
  IF digits = <<>> THEN 0
  ELSE HexNumber(SubSeq(digits, 1, Len(digits) - 1)) * 16
         + HexValue(digits[Len(digits)])

(* Number(`0x...`): NaN (Undefined here) when no digit follows the prefix *)
Number(str) ==
  IF Len(str) <= 2 THEN Undefined ELSE HexNumber(slice(str, 2, Len(str)))

(* A 65-byte signature as eth_signTypedData_v4 returns it: the prefix and   *)
(* 130 digits.  Digit i of the signature (a, b) is a * i + i / 64 + b       *)
(* modulo 16, so that r, s and v differ.                                   *)
SignatureOf(a, b) ==
  HexPrefix \o
    [i \in 1..130 |-> HexDigits[((a * i + (i \div 64) + b) % 16) + 1]]

(* the signatures the wallet may return to a write operation *)
Signatures == { SignatureOf(1, 0), SignatureOf(3, 5) }

(* pool-methods.js:979  let recordedSignature = {} *)
EmptySignature ==
  [signed |-> FALSE, r |-> <<>>, s |-> <<>>, v |-> Undefined]

(* a permit proxy that is not created yet.  deadline and                 *)
(* recordedSignature are the variables of its closure; signing holds the *)
(* deadline given to the signPermit that has not answered yet, estimated *)
(* and sent the method calls its estimateGas and its send built.         *)
NoProxy ==
  [created |-> FALSE, deadline |-> Undefined,
   recordedSignature |-> EmptySignature, signing |-> <<>>,
   estimated |-> <<>>, sent |-> <<>>]

(* variant: s taken two characters early *)
SplitSignatureEarly(signature) ==
  [signed |-> TRUE,
   r |-> slice(signature, 0, 66),
   s |-> HexPrefix \o slice(signature, 64, 128),
   v |-> Number(HexPrefix \o slice(signature, 130, 132))]

(* pool-methods.js:955-959 *)
SplitSignature(signature) ==
  [signed |-> TRUE,
   r |-> slice(signature, 0, 66),
   s |-> HexPrefix \o slice(signature, 66, 130),
   v |-> Number(HexPrefix \o slice(signature, 130, 132))]

----------------------------------------------------------------------------
(* The permit proxy and the step list of migrate *)

(* pool-methods.js:977  Math.round(Date.now() / 1000) + 900 *)
ProxyDeadline(now) == now + 900

(* the method call buildMethodCall(deadline, signature) gives, and the     *)
(* proxy function that built it                                            *)
MethodCall(via, d, sig) == [via |-> via, deadline |-> d, signature |-> sig]

(* variant: send signs again, with a deadline of its own *)
ProxySendResigns(d, sig) ==
  MethodCall("send", d + 1, SplitSignature(SignatureOf(7, 7)))

(* pool-methods.js:987-988 *)
ProxySend(d, sig) == MethodCall("send", d, sig)

(* pool-methods.js:982-986, the call whose gas is estimated *)
ProxyEstimateGas(d, sig) == MethodCall("estimateGas", d, sig)

(* the ways signPermit fails: eip-1193 patch finds no request, sendAsync   *)
(* or send function (pools-info.js:108-115); the JSON-RPC response carries *)
(* an error (pools-info.js:131-133)                                        *)
SigningFailures == { "NoSigningCapability", "JsonRpcError" }

PermitMigrateStep(amt) ==
  Step("simpleMigrateWithPermit", amt, Undefined, "migrate",
       expectedGasForApproval + expectedGasForMigrate)

PlainMigrateStep(amt) ==
  Step("simpleMigrate", amt, Undefined, "migrate", expectedGasForMigrate)

(* whether the method of a step is a permit proxy *)
IsProxy(step) == step.method = "simpleMigrateWithPermit"

(* pool-methods.js:1262-1297 *)
MigrateTxs(approvalNeeded, amt) ==
  IF approvalNeeded
  THEN << PermitMigrateStep(amt) >>
  ELSE << PlainMigrateStep(amt) >>

----------------------------------------------------------------------------
(* Parsing the outcomes *)

ParseThrew == [threw |-> TRUE, sent |-> Undefined, received |-> Undefined,
               decimals |-> Undefined]

Parsed(sent, received, decimals) ==
  [threw |-> FALSE, sent |-> sent, received |-> received,
   decimals |-> decimals]

(* the receipt parseResults reads the received amount from *)
ReceiptRead(data) == data[Len(data)].receipt

(* pool-methods.js:1055-1067 and 1378-1390 *)
DepositReceived(token, data) ==
  IF token
  THEN findReturnValue(ReceiptRead(data), "Deposit", poolAddress)
  ELSE findReturnValue(ReceiptRead(data), "Transfer", poolAddress)

(* pool-methods.js:1052 *)
DepositSent(amt) == amt

(* pool-methods.js:1051-1078 *)
DepositParseResults(token, amt, data) ==
  LET received == DepositReceived(token, data)
  IN  IF received.threw \/ fromUnitThrows(received.value)
      THEN ParseThrew
      ELSE Parsed(DepositSent(amt), received.value, 18)

(* variant: the approved amount reported as sent *)
ApproveAndDepositSentApproved(approveAmt, depositAmt) == approveAmt

(* pool-methods.js:1375 *)
ApproveAndDepositSent(approveAmt, depositAmt) == depositAmt

(* pool-methods.js:1374-1402 *)
ApproveAndDepositParseResults(token, approveAmt, depositAmt, data) ==
  LET received == DepositReceived(token, data)
  IN  IF received.threw \/ fromUnitThrows(received.value)
      THEN ParseThrew
      ELSE Parsed(ApproveAndDepositSent(approveAmt, depositAmt),
                  received.value, 18)

(* pool-methods.js:1217-1221 *)
RebalanceParseResults == Parsed(Undefined, Undefined, Undefined)

(* pool-methods.js:1299-1320 *)
MigrateParseResults(data) ==
  LET sent == findReturnValue(data[1].receipt, "Withdraw", poolAddress)
      received == findReturnValue(data[1].receipt, "Deposit", supersededBy)
  IN  IF sent.threw \/ received.threw
         \/ fromUnitThrows(sent.value) \/ fromUnitThrows(received.value)
      THEN ParseThrew
      ELSE Parsed(sent.value, received.value, 18)

parseResults(data) ==
  CASE op = "deposit" -> DepositParseResults(isToken, amount, data)
    [] op = "approveAndDeposit" ->
         ApproveAndDepositParseResults(isToken, approveAmount, amount, data)
    [] op = "migrate" -> MigrateParseResults(data)
    [] OTHER -> RebalanceParseResults

----------------------------------------------------------------------------
(* The transaction sequencer (./exec-transactions, specification 4.4) *)

NoResult == [present |-> FALSE]

NoError == [present |-> FALSE]

Failure(kind, stage, step) ==
  [present |-> TRUE, kind |-> kind, stage |-> stage, step |-> step]

(* gas estimation with the overestimation factor 5/4 applied, rounded up *)
OverestimationNum == 5
OverestimationDen == 4

Overestimate(gas) ==
  (gas * OverestimationNum + OverestimationDen - 1) \div OverestimationDen

(* variant: the fee of the last outcome only *)
SumFeesLast(data) ==
  IF data = <<>> THEN 0
  ELSE data[Len(data)].receipt.gasUsed * data[Len(data)].transaction.gasPrice

RECURSIVE SumFees(_)
(* fees: sum over the outcomes of gasUsed x gasPrice *)
SumFees(data) ==
  IF data = <<>> THEN 0
  ELSE data[1].receipt.gasUsed * data[1].transaction.gasPrice
         + SumFees(Tail(data))

(* variant: the status of the last outcome only *)
LastStatus(data) ==
  IF data = <<>> THEN TRUE ELSE data[Len(data)].receipt.status

RECURSIVE AllStatus(_)
(* status: AND of the receipt status of every outcome *)
AllStatus(data) ==
  IF data = <<>> THEN TRUE
  ELSE data[1].receipt.status /\ AllStatus(Tail(data))

(* the outcome list handed to parseResults and returned as raw *)
RawOutcomes(data) == data

(* the operation result: the parsed amounts plus fees, status and raw *)
BuildResult(parsed, data) ==
  [present |-> TRUE, sent |-> parsed.sent, received |-> parsed.received,
   decimals |-> parsed.decimals, fees |-> SumFees(data),
   status |-> AllStatus(data), raw |-> RawOutcomes(data)]

(* variant: the error event emitted whether or not anyone listens *)
EmitsErrorAlways(listeners) == TRUE

(* whether a failure is delivered as an error event *)
EmitsError(listeners) == listeners > 0

(* A failure of the operation: an error event when a listener of the error *)
(* event is registered, otherwise a rejection of the returned completion.  *)
Fail(kind, stage, step) ==
  /\ pc' = "error"
  /\ error' = Failure(kind, stage, step)
  /\ IF EmitsError(errorListeners)
     THEN /\ events' = Append(events, "error")
          /\ UNCHANGED promise
     ELSE /\ promise' = "rejected"
          /\ UNCHANGED events
  /\ UNCHANGED result

(* variant: the outcomes parsed after the first receipt *)
HasNextStepNever(i, steps) == FALSE

(* whether the next step is taken up after a receipt *)
HasNextStep(i, steps) == i < Len(steps)

(* whether gas is estimated for a step: not when the caller gave the gas *)
EstimationSkipped(gas) == gas # Undefined

(* whether the ledger accepts the call of a step (it reverts otherwise):   *)
(* a token deposit needs the allowance to cover the amount                 *)
CallSucceeds(step, allow) ==
  (step.method = "deposit" /\ step.arg # Undefined) => allow >= step.arg

(* the allowance after a step took effect *)
AllowanceAfter(step, allow) ==
  CASE step.method = "approve" -> step.arg
    [] step.method = "deposit" /\ step.arg # Undefined -> allow - step.arg
    [] OTHER -> allow

----------------------------------------------------------------------------
(* State after the library instance and the pool methods are created *)

Init ==
  /\ isToken \in BOOLEAN
  /\ allowance \in 0..MaxAmount
  /\ allowanceReads = 0
  /\ allowanceSeen = Undefined
  /\ op = "none"
  /\ amount = Undefined
  /\ approveAmount = Undefined
  /\ gasOpt = Undefined
  /\ pc = "idle"
  /\ txs = <<>>
  /\ idx = 0
  /\ gasLimit = Undefined
  /\ estimateCalls = <<>>
  /\ submitted = <<>>
  /\ transactionsData = <<>>
  /\ result = NoResult
  /\ error = NoError
  /\ errorListeners = 0
  /\ events = <<>>
  /\ promise = "pending"
  /\ vakAllowance = Undefined
  /\ deadline = Undefined
  /\ recordedSignature = EmptySignature
  /\ signCalls = <<>>
  /\ methodCalls = <<>>
  /\ calcOp = "none"
  /\ calcIn = <<>>
  /\ calcOut = <<>>
  /\ proxies = [p \in 1..MaxProxies |-> NoProxy]

chainVars == <<isToken, allowance>>
readVars == <<allowanceReads, allowanceSeen>>
inputVars == <<op, amount, approveAmount, gasOpt>>
execVars == <<txs, idx, gasLimit, estimateCalls, submitted, transactionsData>>
outVars == <<result, error, events, promise>>
proxyVars == <<deadline, recordedSignature, signCalls, methodCalls>>
calcVars == <<calcOp, calcIn, calcOut>>
writeVars == <<chainVars, readVars, inputVars, pc, execVars, outVars,
               errorListeners, vakAllowance, proxyVars>>

(* The caller invokes a write operation; the emitter and the completion    *)
(* are returned at once, the step list is built asynchronously.            *)
Invoke(o, amt, approveAmt, gas) ==
  /\ pc = "idle"
  /\ op' = o
  /\ amount' = amt
  /\ approveAmount' = approveAmt
  /\ gasOpt' = gas
  /\ pc' = "building"
  /\ UNCHANGED <<chainVars, readVars, execVars, outVars, errorListeners,
                 vakAllowance, proxyVars, calcVars, proxies>>

(* pool-methods.js:999-1085 *)
deposit ==
  \E amt \in Amounts, gas \in {Undefined, expectedGasForDeposit} :
    Invoke("deposit", amt, Undefined, gas)

(* pool-methods.js:1330-1409 *)
approveAndDeposit ==
  \E approveAmt \in Amounts, amt \in Amounts,
     gas \in {Undefined, expectedGasForDeposit} :
    Invoke("approveAndDeposit", amt, approveAmt, gas)

(* pool-methods.js:1206-1228 *)
rebalance ==
  \E gas \in {Undefined, expectedGasForRebalance} :
    Invoke("rebalance", Undefined, Undefined, gas)

(* pool-methods.js:1231-1327.  The allowance of the migration helper on    *)
(* the pool token is what the ledger holds when migrate is called.         *)
migrate ==
  \E gas \in {Undefined, expectedGasForApproval + expectedGasForMigrate},
     allow \in 0..MaxAmount :
    /\ pc = "idle"
    /\ op' = "migrate"
    /\ gasOpt' = gas
    /\ vakAllowance' = allow
    /\ pc' = "building"
    /\ UNCHANGED <<chainVars, readVars, amount, approveAmount, execVars,
                   outVars, errorListeners, proxyVars, calcVars, proxies>>

(* The caller registers a listener of the emitter's error event *)
OnError ==
  /\ pc \notin {"idle", "completed", "error"}
  /\ errorListeners < MaxListeners
  /\ errorListeners' = errorListeners + 1
  /\ UNCHANGED <<chainVars, readVars, inputVars, pc, execVars, outVars,
                 vakAllowance, proxyVars, calcVars, proxies>>

StartSteps(steps) ==
  /\ txs' = steps
  /\ idx' = 1
  /\ pc' = "estimating"
  /\ UNCHANGED <<gasLimit, estimateCalls, submitted, transactionsData,
                 outVars>>

(* deposit: the allowance is read (token pools only), the step list built *)
BuildDeposit ==
  /\ pc = "building" /\ op = "deposit"
  /\ allowanceReads' = IF isToken THEN allowanceReads + 1 ELSE allowanceReads
  /\ allowanceSeen' = IF isToken THEN allowance ELSE Undefined
  /\ StartSteps(DepositTxs(isToken,
                           isApprovalNeeded(isToken, allowance, amount),
                           amount))
  /\ UNCHANGED <<chainVars, inputVars, errorListeners, vakAllowance,
                 proxyVars, calcVars, proxies>>

(* deposit: the allowance call is rejected by the transport *)
BuildDepositFails ==
  /\ pc = "building" /\ op = "deposit" /\ isToken
  /\ allowanceReads' = allowanceReads + 1
  /\ UNCHANGED allowanceSeen
  /\ Fail("CallFailed", "building", 0)
  /\ UNCHANGED <<chainVars, inputVars, execVars, errorListeners,
                 vakAllowance, proxyVars, calcVars, proxies>>

(* approveAndDeposit: both steps are built without reading the allowance *)
BuildApproveAndDeposit ==
  /\ pc = "building" /\ op = "approveAndDeposit"
  /\ IF ApproveAndDepositBuilds(isToken)
     THEN /\ StartSteps(ApproveAndDepositTxs(isToken, approveAmount, amount))
     ELSE /\ Fail("TypeError", "building", 0)
          /\ UNCHANGED execVars
  /\ UNCHANGED <<chainVars, readVars, inputVars, errorListeners,
                 vakAllowance, proxyVars, calcVars, proxies>>

BuildRebalance ==
  /\ pc = "building" /\ op = "rebalance"
  /\ StartSteps(RebalanceTxs)
  /\ UNCHANGED <<chainVars, readVars, inputVars, errorListeners,
                 vakAllowance, proxyVars, calcVars, proxies>>

(* migrate: the amount to migrate is computed from the ledger, the         *)
(* allowance of the helper is read (token pools only) and the one step is  *)
(* built; a permit step carries a new proxy (pool-methods.js:976-990).     *)
BuildMigrate ==
  /\ pc = "building" /\ op = "migrate"
  /\ \E amt \in Amounts, now \in Times :
       LET approvalNeeded == isApprovalNeeded(isToken, vakAllowance, amt)
       IN  /\ amount' = amt
           /\ StartSteps(MigrateTxs(approvalNeeded, amt))
           /\ IF approvalNeeded
              THEN /\ deadline' = ProxyDeadline(now)
                   /\ recordedSignature' = EmptySignature
              ELSE UNCHANGED <<deadline, recordedSignature>>
  /\ allowanceReads' = IF isToken THEN allowanceReads + 1 ELSE allowanceReads
  /\ allowanceSeen' = IF isToken THEN vakAllowance ELSE Undefined
  /\ UNCHANGED <<chainVars, op, approveAmount, gasOpt, errorListeners,
                 vakAllowance, signCalls, methodCalls, calcVars, proxies>>

(* migrate: a call of the ledger is rejected while the step is built *)
BuildMigrateFails ==
  /\ pc = "building" /\ op = "migrate"
  /\ Fail("CallFailed", "building", 0)
  /\ UNCHANGED <<chainVars, readVars, inputVars, execVars, errorListeners,
                 vakAllowance, proxyVars, calcVars, proxies>>

(* step 1 of the sequencer: the gas given by the caller is used as it is *)
UseGivenGas ==
  /\ pc = "estimating" /\ EstimationSkipped(gasOpt)
  /\ gasLimit' = gasOpt
  /\ pc' = "sending"
  /\ UNCHANGED <<chainVars, readVars, inputVars, txs, idx,
                 estimateCalls, submitted, transactionsData, outVars,
                 errorListeners, vakAllowance, proxyVars, calcVars, proxies>>

(* estimateGas of a permit proxy, the permit signed: the signature is      *)
(* split and recorded, the method call built (pool-methods.js:982-986)     *)
ProxySigns(signature) ==
  /\ signCalls' = Append(signCalls,
                         [deadline |-> deadline, outcome |-> "signed"])
  /\ recordedSignature' = SplitSignature(signature)
  /\ methodCalls' = Append(methodCalls,
                           ProxyEstimateGas(deadline, SplitSignature(signature)))
  /\ UNCHANGED deadline

(* variant: a rejected signing request is made again *)
ProxySigningFailsRetried(cause) ==
  /\ signCalls' = signCalls \o
                    << [deadline |-> deadline, outcome |-> cause],
                       [deadline |-> deadline, outcome |-> "signed"] >>
  /\ UNCHANGED <<deadline, recordedSignature, methodCalls>>

(* estimateGas of a permit proxy, signPermit rejected: nothing is recorded *)
ProxySigningFails(cause) ==
  /\ signCalls' = Append(signCalls,
                         [deadline |-> deadline, outcome |-> cause])
  /\ UNCHANGED <<deadline, recordedSignature, methodCalls>>

(* step 1 of the sequencer: the gas of the step is estimated; the          *)
(* estimateGas of a permit proxy has the permit signed first               *)
EstimateGas ==
  /\ pc = "estimating" /\ ~EstimationSkipped(gasOpt)
  /\ CallSucceeds(txs[idx], allowance)
  /\ IF IsProxy(txs[idx])
     THEN \E signature \in Signatures : ProxySigns(signature)
     ELSE UNCHANGED proxyVars
  /\ \E gas \in 1..MaxEstimate :
       gasLimit' = Overestimate(gas)
  /\ estimateCalls' = Append(estimateCalls, idx)
  /\ events' = Append(events, "estimatedGas")
  /\ pc' = "sending"
  /\ UNCHANGED <<chainVars, readVars, inputVars, txs, idx, submitted,
                 transactionsData, result, error, promise, errorListeners,
                 vakAllowance, calcVars, proxies>>

(* variant: a failed estimation is tried again *)
EstimateGasRetried ==
  /\ pc = "estimating" /\ ~EstimationSkipped(gasOpt)
  /\ Len(estimateCalls) < 3
  /\ estimateCalls' = Append(estimateCalls, idx)
  /\ UNCHANGED <<chainVars, readVars, inputVars, pc, txs, idx, gasLimit,
                 submitted, transactionsData, outVars, errorListeners,
                 vakAllowance, proxyVars, calcVars, proxies>>

(* step 1 of the sequencer: the estimation fails, the operation is         *)
(* aborted.  The estimateGas of a permit proxy fails when the permit       *)
(* cannot be signed, or when the estimation of the signed call fails.      *)
EstimateGasFails ==
  /\ pc = "estimating" /\ ~EstimationSkipped(gasOpt)
  /\ estimateCalls' = Append(estimateCalls, idx)
  /\ IF IsProxy(txs[idx])
     THEN \/ \E cause \in SigningFailures :
               /\ ProxySigningFails(cause)
               /\ Fail(cause, "estimating", idx)
          \/ \E signature \in Signatures :
               /\ ProxySigns(signature)
               /\ Fail("EstimationFailed", "estimating", idx)
     ELSE /\ UNCHANGED proxyVars
          /\ Fail("EstimationFailed", "estimating", idx)
  /\ UNCHANGED <<chainVars, readVars, inputVars, txs, idx, gasLimit,
                 submitted, transactionsData, errorListeners,
                 vakAllowance, calcVars, proxies>>

(* send of the method of a step: the send of a permit proxy builds the     *)
(* method call from the deadline and the recorded signature                *)
MethodSend(step) ==
  /\ methodCalls' = IF IsProxy(step)
                    THEN Append(methodCalls,
                                ProxySend(deadline, recordedSignature))
                    ELSE methodCalls
  /\ UNCHANGED <<deadline, recordedSignature, signCalls>>

(* whether the arguments of the call of a step can be encoded: v, r and s  *)
(* of a signature that was never recorded are undefined                    *)
CanEncode(step) == IsProxy(step) => recordedSignature.signed

(* step 2 of the sequencer: the step is submitted, its hash becomes known *)
Send ==
  /\ pc = "sending"
  /\ CanEncode(txs[idx])
  /\ MethodSend(txs[idx])
  /\ submitted' = Append(submitted, idx)
  /\ events' = Append(events, "transactionHash")
  /\ pc' = "confirming"
  /\ UNCHANGED <<chainVars, readVars, inputVars, txs, idx, gasLimit,
                 estimateCalls, transactionsData, result, error, promise,
                 errorListeners, vakAllowance, calcVars, proxies>>

(* step 2 of the sequencer: the call cannot be encoded, or the transport   *)
(* refuses the transaction                                                 *)
SendFails ==
  /\ pc = "sending"
  /\ MethodSend(txs[idx])
  /\ Fail("SendFailed", "sending", idx)
  /\ UNCHANGED <<chainVars, readVars, inputVars, execVars,
                 errorListeners, vakAllowance, calcVars, proxies>>

(* step 3 of the sequencer: the receipt arrives, the transaction is read   *)
(* for its gas price and the outcome is appended; then the next step is    *)
(* taken up or, after the last one, the outcomes are parsed.  A reverted   *)
(* transaction (status false) has no effect and emits no event.            *)
Confirm ==
  /\ pc = "confirming"
  /\ \E status \in BOOLEAN, gasUsed \in 1..MaxGasUsed,
        gasPrice \in 1..MaxGasPrice, evs \in EventLists :
       /\ status => CallSucceeds(txs[idx], allowance)
       /\ ~status => evs = <<>>
       /\ transactionsData' = Append(transactionsData,
            [transaction |-> [gasPrice |-> gasPrice, step |-> idx],
             receipt |-> [status |-> status, gasUsed |-> gasUsed,
                          events |-> evs]])
       /\ allowance' = IF status THEN AllowanceAfter(txs[idx], allowance)
                       ELSE allowance
  /\ events' = Append(events, "receipt")
  /\ gasLimit' = Undefined
  /\ IF HasNextStep(idx, txs)
     THEN /\ idx' = idx + 1
          /\ pc' = "estimating"
     ELSE /\ pc' = "parsing"
          /\ UNCHANGED idx
  /\ UNCHANGED <<isToken, readVars, inputVars, txs, estimateCalls,
                 submitted, result, error, promise, errorListeners,
                 vakAllowance, proxyVars, calcVars, proxies>>

(* step 3 of the sequencer: waiting for the inclusion fails *)
ConfirmFails ==
  /\ pc = "confirming"
  /\ Fail("ConfirmationFailed", "confirming", idx)
  /\ UNCHANGED <<chainVars, readVars, inputVars, execVars,
                 errorListeners, vakAllowance, proxyVars, calcVars, proxies>>

(* step 5 of the sequencer: the operation result is built and delivered *)
Complete ==
  /\ pc = "parsing"
  /\ LET parsed == parseResults(transactionsData)
     IN  IF parsed.threw
         THEN Fail("ParseFailed", "parsing", idx)
         ELSE /\ result' = BuildResult(parsed, transactionsData)
              /\ events' = Append(events, "result")
              /\ promise' = "fulfilled"
              /\ pc' = "completed"
              /\ UNCHANGED error
  /\ UNCHANGED <<chainVars, readVars, inputVars, execVars,
                 errorListeners, vakAllowance, proxyVars, calcVars, proxies>>

Next ==
  \/ deposit
  \/ approveAndDeposit
  \/ rebalance
  \/ migrate
  \/ OnError
  \/ BuildDeposit
  \/ BuildDepositFails
  \/ BuildApproveAndDeposit
  \/ BuildRebalance
  \/ BuildMigrate
  \/ BuildMigrateFails
  \/ UseGivenGas
  \/ EstimateGas
  \/ EstimateGasFails
  \/ Send
  \/ SendFails
  \/ Confirm
  \/ ConfirmFails
  \/ Complete

Spec == Init /\ [][Next]_vars

----------------------------------------------------------------------------
(* Permit proxies side by side: the operations of two callers, each with *)
(* a proxy of its own, interleaved                                       *)

(* variant: one deadline and one recordedSignature for all the proxies *)
SharedClosure(p) == 1

(* pool-methods.js:976-979  deadline and recordedSignature are declared  *)
(* inside createProxyMethodCall: each proxy has those of its own call    *)
Closure(p) == p

(* pool-methods.js:976-990 *)
createProxyMethodCall(p) ==
  \E now \in Times :
    /\ ~proxies[p].created
    /\ proxies' = [proxies EXCEPT
                     ![p].created = TRUE,
                     ![Closure(p)].deadline = ProxyDeadline(now),
                     ![Closure(p)].recordedSignature = EmptySignature]
    /\ UNCHANGED <<writeVars, calcVars>>

(* pool-methods.js:981-982  estimateGas asks signPermit for a signature *)
proxyEstimateGas(p) ==
  /\ proxies[p].created
  /\ proxies[p].signing = <<>>
  /\ proxies[p].estimated = <<>>
  /\ proxies[p].sent = <<>>
  /\ proxies' = [proxies EXCEPT
                   ![p].signing = <<proxies[Closure(p)].deadline>>]
  /\ UNCHANGED <<writeVars, calcVars>>

(* pool-methods.js:982-985  the signature arrives: it is recorded and    *)
(* the method call is built to estimate its gas                          *)
proxyRecordsSignature(p) ==
  \E signature \in Signatures :
    /\ proxies[p].signing # <<>>
    /\ proxies' = [proxies EXCEPT
                     ![p].signing = <<>>,
                     ![Closure(p)].recordedSignature =
                        SplitSignature(signature),
                     ![p].estimated =
                        <<ProxyEstimateGas(proxies[Closure(p)].deadline,
                                           SplitSignature(signature))>>]
    /\ UNCHANGED <<writeVars, calcVars>>

(* pool-methods.js:987-988 *)
proxySend(p) ==
  /\ proxies[p].created
  /\ proxies[p].signing = <<>>
  /\ proxies[p].sent = <<>>
  /\ proxies' = [proxies EXCEPT
                   ![p].sent =
                      <<ProxySend(proxies[Closure(p)].deadline,
                                  proxies[Closure(p)].recordedSignature)>>]
  /\ UNCHANGED <<writeVars, calcVars>>

ProxiesNext ==
  \E p \in 1..MaxProxies :
    \/ createProxyMethodCall(p)
    \/ proxyEstimateGas(p)
    \/ proxyRecordsSignature(p)
    \/ proxySend(p)

SpecProxies == Init /\ [][ProxiesNext]_vars

----------------------------------------------------------------------------
(* Decimal arithmetic.  The program counts pool tokens in 18 decimals and  *)
(* Big.js divides to 20 decimal places, rounding down (pools-info.js:156). *)
(* The model keeps the two places between them, with TokenDecimals         *)
(* decimals, so that every intermediate value stays in the range of the    *)
(* integers at hand.  A Big number x is held as the integer x * 10^BigDP.  *)

BigDP == TokenDecimals + 2

RECURSIVE Pow10(_)
Pow10(n) == IF n = 0 THEN 1 ELSE 10 * Pow10(n - 1)

BigOf(n) == n * Pow10(BigDP)

DivisionByZero == [threw |-> TRUE, value |-> Undefined]

(* The first n decimal places of r / b, for 0 <= r < b, by long division *)
RECURSIVE DecimalPlaces(_, _, _)
DecimalPlaces(r, b, n) ==
  IF n = 0 THEN 0
  ELSE ((r * 10) \div b) * Pow10(n - 1) + DecimalPlaces((r * 10) % b, b, n - 1)

(* Big(a).div(b) of two integers: [big.js] Division by zero when b is 0, *)
(* and the quotient cut after BigDP decimal places otherwise             *)
BigDiv(a, b) ==
  IF b = 0 THEN DivisionByZero
  ELSE Returned((a \div b) * Pow10(BigDP) + DecimalPlaces(a % b, b, BigDP))

(* ./utils toUnit(value, decimals = 18): the value in base units, the      *)
(* fraction below one base unit dropped                                    *)
toUnit(big, decimals) ==
  IF decimals <= BigDP
  THEN big \div Pow10(BigDP - decimals)
  ELSE big * Pow10(decimals - BigDP)

----------------------------------------------------------------------------
(* Token value, dust and the step list of withdraw *)

(* variant: gte in place of gt *)
SupplyNotNegative(totalSupply) == totalSupply >= 0

(* pool-methods.js:152  Big(totalSupply).gt(0) *)
SupplyIsPositive(totalSupply) == totalSupply > 0

(* pool-methods.js:151-155 *)
TokenValue(totalSupply, totalValue, assetDecimals) ==
  IF SupplyIsPositive(totalSupply)
  THEN LET quotient == BigDiv(totalValue, totalSupply)
       IN  IF quotient.threw THEN quotient
           ELSE Returned(toUnit(quotient.value, TokenDecimals))
  ELSE Returned(toUnit(BigOf(1), assetDecimals))

(* pool-methods.js:1117 and 1237-1240 *)
TokenAmount(amt, tokenValue) ==
  LET quotient == BigDiv(amt, tokenValue)
  IN  IF quotient.threw THEN quotient
      ELSE Returned(toUnit(quotient.value, TokenDecimals))

(* the default limit 0.999 of sweepDust as a Big number *)
DustLimit == 999 * Pow10(BigDP - 3)

(* variant: the limit itself counted as dust *)
AtOrAboveLimit(ratio) == ratio >= DustLimit

(* pool-methods.js:1096  Big(tokenAmount).div(balance).toNumber() > limit. *)
(* The quotient is cut after BigDP decimal places before it is compared;   *)
(* toNumber() keeps the order of the quotients that differ from the limit  *)
(* by more than the precision of a double, and gives the limit itself for  *)
(* a quotient cut to 0.999.                                                *)
AboveLimit(ratio) == ratio > DustLimit

(* pool-methods.js:1094-1097 *)
sweepDust(tokenAmount, balance) ==
  LET ratio == BigDiv(tokenAmount, balance)
  IN  IF ratio.threw THEN ratio
      ELSE Returned(IF AboveLimit(ratio.value) THEN balance ELSE tokenAmount)

(* pool-methods.js:1122-1134 *)
WithdrawTxs(token, tokenAmount) ==
  << Step(IF token THEN "withdraw" ELSE "withdrawETH", tokenAmount,
          Undefined, "withdraw", expectedGasForWithdraw) >>

(* The answer of a call of the ledger: a value, or a rejection *)
Ok(v) == [ok |-> TRUE, value |-> v]

Rejects == [ok |-> FALSE, value |-> Undefined]

(* the rejection of a call that gives an address *)
RejectsAddress == [ok |-> FALSE, value |-> ""]

(* What a read method gives back: the value resolved, or a rejection *)
Resolved(v) == [rejected |-> FALSE, value |-> v]

Rejected == [rejected |-> TRUE, value |-> Undefined]

(* Ledgers of pools: total supply, total value and the decimals of the     *)
(* deposit asset                                                           *)
Supplies == {0, 1, 3, 1000, 2000}

Values == {0, 1, 2, 1000, 1999, 2000}

DecimalsOf(token) == IF token THEN {0, 1, TokenDecimals} ELSE {TokenDecimals}

(* pool-methods.js:142-166 *)
getTokenValue ==
  \E totalSupply \in {Rejects} \cup {Ok(n) : n \in Supplies},
     totalValue \in {Rejects} \cup {Ok(n) : n \in Values},
     assetDecimals \in DecimalsOf(isToken) :
    /\ calcOp = "none"
    /\ calcOp' = "getTokenValue"
    /\ calcIn' = [totalSupply |-> totalSupply, totalValue |-> totalValue,
                  assetDecimals |-> assetDecimals]
    /\ calcOut' =
         IF ~totalSupply.ok \/ ~totalValue.ok THEN Rejected
         ELSE LET value == TokenValue(totalSupply.value, totalValue.value,
                                      assetDecimals)
              IN  IF value.threw THEN Rejected ELSE Resolved(value.value)
    /\ UNCHANGED <<writeVars, proxies>>

(* the amounts asked of withdraw, the balances of the caller and the       *)
(* ledgers of the pools withdrawn from                                     *)
WithdrawAmounts == {1, 999, 1998, 1999, 2000}

Balances == {0, 1000, 2000}

WithdrawPools ==
  { [totalSupply |-> 1000, totalValue |-> 1000, assetDecimals |-> d] :
      d \in {TokenDecimals} }
  \cup
  { [totalSupply |-> 1000, totalValue |-> 2000, assetDecimals |-> d] :
      d \in {TokenDecimals} }
  \cup
  { [totalSupply |-> 1000, totalValue |-> 0, assetDecimals |-> d] :
      d \in {TokenDecimals} }
  \cup
  { [totalSupply |-> 0, totalValue |-> 0, assetDecimals |-> d] :
      d \in {TokenDecimals} }

(* pool-methods.js:1100-1135: the step list of withdraw.  The token value  *)
(* is read, the amount converted into pool tokens, the dust swept.         *)
withdraw ==
  \E amt \in WithdrawAmounts, pool \in WithdrawPools,
     balance \in {Rejects} \cup {Ok(n) : n \in Balances} :
    LET tokenValue == TokenValue(pool.totalSupply, pool.totalValue,
                                 pool.assetDecimals)
        computed == TokenAmount(amt, tokenValue.value)
        swept == sweepDust(computed.value, balance.value)
    IN  /\ calcOp = "none"
        /\ calcOp' = "withdraw"
        /\ calcIn' = [amount |-> amt, pool |-> pool, balance |-> balance]
        /\ calcOut' =
             IF tokenValue.threw \/ computed.threw \/ ~balance.ok
             THEN [rejected |-> TRUE, computed |-> Undefined, txs |-> <<>>]
             ELSE IF swept.threw
             THEN [rejected |-> TRUE, computed |-> computed.value,
                   txs |-> <<>>]
             ELSE [rejected |-> FALSE, computed |-> computed.value,
                   txs |-> WithdrawTxs(isToken, swept.value)]
        /\ UNCHANGED <<writeVars, proxies>>

----------------------------------------------------------------------------
(* Read methods with fallbacks *)

ZERO_ADDRESS == "0x0000000000000000000000000000000000000000"

vspAddress == "0xVSP"

(* the versions of the pools *)
Versions == {1, 3}

(* the answers of a call that gives an address of a contract *)
AddressAnswers == { RejectsAddress, Ok(ZERO_ADDRESS), Ok("0xContract") }

(* pool-methods.js:392-396: the strategy is asked for the interest earned *)
PrimaryInterestEarned(strategyAddress, earned) ==
  IF ~strategyAddress.ok THEN Rejects
  ELSE IF strategyAddress.value = ZERO_ADDRESS THEN Rejects
  ELSE earned

(* pool-methods.js:300-326: the aDAI balance of the pool minus the debt of *)
(* the vault, priced in the deposit asset by the router                    *)
LegacyInterestEarned(strategyAddress, aDaiBalance, daiDebt, rate) ==
  IF ~aDaiBalance.ok \/ ~strategyAddress.ok THEN Rejects
  ELSE IF strategyAddress.value = ZERO_ADDRESS \/ ~daiDebt.ok THEN Rejects
  ELSE IF ~rate.ok THEN Rejects
  ELSE Ok((aDaiBalance.value - daiDebt.value) * rate.value)

(* pool-methods.js:411-418  if (!interestEarned) return '0' *)
OrZero(value) == IF value = Undefined THEN 0 ELSE value

(* pool-methods.js:391-418: pools of version 1 *)
InterestEarnedV1(strategyAddress, earned, aDaiBalance, daiDebt, rate) ==
  LET primary == PrimaryInterestEarned(strategyAddress, earned)
      legacy == LegacyInterestEarned(strategyAddress, aDaiBalance, daiDebt,
                                     rate)
  IN  IF primary.ok
      THEN [rejected |-> FALSE, value |-> OrZero(primary.value),
            legacyTried |-> FALSE]
      ELSE IF legacy.ok
      THEN [rejected |-> FALSE, value |-> OrZero(legacy.value),
            legacyTried |-> TRUE]
      ELSE [rejected |-> FALSE, value |-> 0, legacyTried |-> TRUE]

(* pool-methods.js:419-424: pools of the other versions *)
InterestEarnedV3(strategiesTotalValue, totalDebt) ==
  IF ~strategiesTotalValue.ok \/ ~totalDebt.ok
  THEN [rejected |-> TRUE, value |-> Undefined, legacyTried |-> FALSE]
  ELSE [rejected |-> FALSE,
        value |-> strategiesTotalValue.value - totalDebt.value,
        legacyTried |-> FALSE]

(* pool-methods.js:388-435 *)
getInterestEarned ==
  \E version \in Versions, strategyAddress \in AddressAnswers,
     earned \in {Rejects, Ok(Undefined), Ok(0), Ok(5)},
     aDaiBalance \in {Rejects, Ok(7)}, daiDebt \in {Rejects, Ok(3)},
     rate \in {Rejects, Ok(2)},
     strategiesTotalValue \in {Rejects, Ok(9)},
     totalDebt \in {Rejects, Ok(4)} :
    /\ calcOp = "none"
    /\ calcOp' = "getInterestEarned"
    /\ calcIn' = [version |-> version, strategyAddress |-> strategyAddress,
                  earned |-> earned, aDaiBalance |-> aDaiBalance,
                  daiDebt |-> daiDebt, rate |-> rate,
                  strategiesTotalValue |-> strategiesTotalValue,
                  totalDebt |-> totalDebt]
    /\ calcOut' = IF version = 1
                  THEN InterestEarnedV1(strategyAddress, earned, aDaiBalance,
                                        daiDebt, rate)
                  ELSE InterestEarnedV3(strategiesTotalValue, totalDebt)
    /\ UNCHANGED <<writeVars, proxies>>

(* pool-methods.js:512  token === vspAddress *)
RewardTokenIsVsp(token) == token = vspAddress

(* pool-methods.js:504-512: the chain before its catch *)
ClaimableChain(rewardsAddress, claimable, rewardToken) ==
  IF ~rewardsAddress.ok THEN Rejects
  ELSE IF rewardsAddress.value = ZERO_ADDRESS THEN Rejects
  ELSE IF ~claimable.ok \/ ~rewardToken.ok THEN Rejects
  ELSE IF RewardTokenIsVsp(rewardToken.value) THEN claimable
  ELSE Ok(0)

(* variant: the rejection of the chain handed on *)
CatchNothing(chain) ==
  IF chain.ok THEN Resolved(chain.value) ELSE Rejected

(* pool-methods.js:523-527  .catch(err => '0') *)
CatchAsZero(chain) ==
  IF chain.ok THEN Resolved(chain.value) ELSE Resolved(0)

(* pool-methods.js:500-528 *)
getClaimableVsp ==
  \E rewardsAddress \in AddressAnswers,
     claimable \in {Rejects, Ok(0), Ok(5)},
     rewardToken \in {RejectsAddress, Ok("0xVSP"), Ok("0xvsp"),
                      Ok("0xOther")} :
    /\ calcOp = "none"
    /\ calcOp' = "getClaimableVsp"
    /\ calcIn' = [rewardsAddress |-> rewardsAddress,
                  claimable |-> claimable, rewardToken |-> rewardToken]
    /\ calcOut' = CatchAsZero(ClaimableChain(rewardsAddress, claimable,
                                             rewardToken))
    /\ UNCHANGED <<writeVars, proxies>>

(* variant: gte in place of gt *)
TokensHereNotNegative(tokensHere) == tokensHere >= 0

(* pool-methods.js:647  Big(amount).gt(0) *)
TokensHerePositive(tokensHere) == tokensHere > 0

(* what canRebalance gives back: false, or the gas the estimation gave *)
CanRebalanceResult(rejected, isFalse, gas, estimated) ==
  [rejected |-> rejected, isFalse |-> isFalse, gas |-> gas,
   estimated |-> estimated]

(* pool-methods.js:629-660 *)
CanRebalance(version, tokensHere, estimate) ==
  IF version # 1 THEN CanRebalanceResult(FALSE, TRUE, Undefined, FALSE)
  ELSE IF ~tokensHere.ok
  THEN CanRebalanceResult(TRUE, FALSE, Undefined, FALSE)
  ELSE IF ~TokensHerePositive(tokensHere.value)
  THEN CanRebalanceResult(FALSE, TRUE, Undefined, FALSE)
  ELSE IF estimate.ok
  THEN CanRebalanceResult(FALSE, FALSE, estimate.value, TRUE)
  ELSE CanRebalanceResult(FALSE, TRUE, Undefined, TRUE)

(* pool-methods.js:629-671 *)
canRebalance ==
  \E version \in Versions, tokensHere \in {Rejects, Ok(0), Ok(1), Ok(5)},
     estimate \in {Rejects} \cup {Ok(g) : g \in 1..MaxEstimate} :
    /\ calcOp = "none"
    /\ calcOp' = "canRebalance"
    /\ calcIn' = [version |-> version, tokensHere |-> tokensHere,
                  estimate |-> estimate]
    /\ calcOut' = CanRebalance(version, tokensHere, estimate)
    /\ UNCHANGED <<writeVars, proxies>>

(* pool-methods.js:955-959: signPermit splits the signature it is given *)
signPermit ==
  \E a \in 0..15, b \in 0..15 :
    /\ calcOp = "none"
    /\ calcOp' = "signPermit"
    /\ calcIn' = [signature |-> SignatureOf(a, b)]
    /\ calcOut' = SplitSignature(SignatureOf(a, b))
    /\ UNCHANGED <<writeVars, proxies>>

(* Big toFixed(0) rounding half up, the default of big.js *)
ToFixed0HalfUp(big) == (big + 5 * Pow10(BigDP - 1)) \div Pow10(BigDP)

(* pool-methods.js:742  toFixed(0) under Big.RM = 0 (pools-info.js:156): *)
(* the fraction is dropped                                               *)
ToFixed0(big) == big \div Pow10(BigDP)

(* pool-methods.js:724  one whole unit of the deposit asset in base units *)
oneAssetOf(assetDecimals) == Pow10(assetDecimals)

(* pool-methods.js:730-736  the path of the swap that gives the rate *)
RatePath(token, asset) ==
  IF token
  THEN IF asset = "VSP" THEN <<"VSP", "WETH", "USDC">> ELSE <<asset, "USDC">>
  ELSE <<"WETH", "USDC">>

(* pools-info.js:271-276  getAmountOut asks the router once for the path *)
(* and gives the last of the amounts                                     *)
getAmountOut(amountIn, tokensPath, answer) ==
  [call |-> [amount |-> amountIn, path |-> tokensPath], answer |-> answer]

(* pool-methods.js:726-738  the rate of one asset: one asset itself for  *)
(* USDC, without a call of the router, and the router's answer otherwise *)
RateOf(token, asset, oneAsset, answer) ==
  IF asset = "USDC"
  THEN [calls |-> <<>>, answer |-> Ok(oneAsset)]
  ELSE LET out == getAmountOut(oneAsset, RatePath(token, asset), answer)
       IN  [calls |-> <<out.call>>, answer |-> out.answer]

(* pool-methods.js:741-743  Big(totalValue).mul(rate).div(oneAsset)      *)
(* .toFixed(0)                                                           *)
ValueLocked(totalValue, rate, oneAsset) ==
  ToFixed0(BigDiv(totalValue * rate, oneAsset).value)

(* pool-methods.js:719-749, for the deposit assets USDC, DAI, VSP and ETH, *)
(* small total values and small answers of the router                     *)
getValueLocked ==
  \E asset \in (IF isToken THEN {"USDC", "DAI", "VSP"} ELSE {"ETH"}),
     assetDecimals \in DecimalsOf(isToken),
     totalValue \in {Rejects} \cup {Ok(n) : n \in {0, 7, 15}},
     answer \in {Rejects} \cup {Ok(n) : n \in {0, 3, 25, 100}} :
    /\ calcOp = "none"
    /\ calcOp' = "getValueLocked"
    /\ calcIn' = [asset |-> asset, assetDecimals |-> assetDecimals,
                  totalValue |-> totalValue, answer |-> answer]
    /\ calcOut' =
         IF ~totalValue.ok
         THEN [rejected |-> TRUE, value |-> Undefined, routerCalls |-> <<>>]
         ELSE LET oneAsset == oneAssetOf(assetDecimals)
                  rate == RateOf(isToken, asset, oneAsset, answer)
              IN  IF ~rate.answer.ok
                  THEN [rejected |-> TRUE, value |-> Undefined,
                        routerCalls |-> rate.calls]
                  ELSE [rejected |-> FALSE,
                        value |-> ValueLocked(totalValue.value,
                                              rate.answer.value, oneAsset),
                        routerCalls |-> rate.calls]
    /\ UNCHANGED <<writeVars, proxies>>

(* pools-info.js:261-270  the symbols getTokenAddressOf and              *)
(* getTokenDecimalsOf answer for: VSP and those of the token list; for   *)
(* any other symbol tokens.find() gives undefined and the property read  *)
(* throws a TypeError                                                    *)
TokenIsKnown(symbol) == symbol \in {"VSP", "WETH", "DAI", "USDC"}

(* pools-info.js:280  one VSP in base units *)
oneVsp == Pow10(TokenDecimals)

(* pools-info.js:288-293  the path of the swap of one VSP *)
VspRatePath(toToken) ==
  IF toToken = "WETH" THEN <<"VSP", "WETH">> ELSE <<"VSP", "WETH", toToken>>

(* pools-info.js:285-308.  getAmountOut is called while the expression   *)
(* of the chain is evaluated: the TypeError of tokensPath.map(           *)
(* getTokenAddressOf) is thrown by getVspRate itself, before any promise *)
(* exists.  The tap after the catch evaluates getTokenDecimalsOf(        *)
(* toToken) as an argument of debug, and its TypeError rejects the       *)
(* promise returned.                                                     *)
VspRate(hasVspAddress, toToken, answer) ==
  LET path == VspRatePath(toToken)
      pathThrows == \E i \in 1..Len(path) : ~TokenIsKnown(path[i])
      chain == IF ~hasVspAddress THEN Rejects
               ELSE IF toToken = "VSP" THEN Ok(oneVsp)
               ELSE answer
      caught == CatchAsZero(chain)
  IN  IF hasVspAddress /\ toToken # "VSP" /\ pathThrows
      THEN [threw |-> TRUE, rejected |-> FALSE, value |-> Undefined]
      ELSE IF ~TokenIsKnown(toToken)
      THEN [threw |-> FALSE, rejected |-> TRUE, value |-> Undefined]
      ELSE [threw |-> FALSE, rejected |-> FALSE, value |-> caught.value]

(* pools-info.js:285-308 *)
getVspRate ==
  \E hasVspAddress \in BOOLEAN, toToken \in {"VSP", "WETH", "DAI", "FOO"},
     answer \in {Rejects, Ok(0), Ok(5)} :
    /\ calcOp = "none"
    /\ calcOp' = "getVspRate"
    /\ calcIn' = [hasVspAddress |-> hasVspAddress, toToken |-> toToken,
                  answer |-> answer]
    /\ calcOut' = VspRate(hasVspAddress, toToken, answer)
    /\ UNCHANGED <<writeVars, proxies>>

(* pool-methods.js:698-706: the chain before its catch *)
RewardsRateChain(rewardsAddress, rewardRate, rewardToken) ==
  IF ~rewardsAddress.ok THEN Rejects
  ELSE IF rewardsAddress.value = ZERO_ADDRESS THEN Rejects
  ELSE IF ~rewardRate.ok \/ ~rewardToken.ok THEN Rejects
  ELSE IF RewardTokenIsVsp(rewardToken.value) THEN rewardRate
  ELSE Ok(0)

(* pool-methods.js:695-716 *)
getVspRewardsRate ==
  \E rewardsAddress \in AddressAnswers,
     rewardRate \in {Rejects, Ok(0), Ok(5)},
     rewardToken \in {RejectsAddress, Ok("0xVSP"), Ok("0xOther")} :
    /\ calcOp = "none"
    /\ calcOp' = "getVspRewardsRate"
    /\ calcIn' = [rewardsAddress |-> rewardsAddress,
                  rewardRate |-> rewardRate, rewardToken |-> rewardToken]
    /\ calcOut' =
         LET rate == CatchAsZero(RewardsRateChain(rewardsAddress, rewardRate,
                                                  rewardToken))
         IN  [threw |-> FALSE, rejected |-> rate.rejected,
              value |-> rate.value]
    /\ UNCHANGED <<writeVars, proxies>>

(* contracts.js:19  ganache's chain id is taken for the main network *)
ChainIdOf(id) == IF id = 1337 THEN 1 ELSE id

(* contracts.js:21-81.  controllers.find() gives undefined when the      *)
(* network has no such controller, and so does augmentedTokenList.find() *)
(* for an asset that is not listed: reading .address of it, or           *)
(* destructuring it, throws a TypeError inside the then, which rejects.  *)
Contracts(chainId, controllers, pools, tokens) ==
  LET id == ChainIdOf(chainId)
      controllersHere == {c.name : c \in {x \in controllers : x.chainId = id}}
      poolsHere == {x \in pools : x.chainId = id}
      assets == {x.asset : x \in poolsHere} \ {"ETH"}
      listed == {t.symbol : t \in {x \in tokens : x.chainId = id}}
      failed == [rejected |-> TRUE, logged |-> FALSE, poolContracts |-> {},
                 assetContracts |-> {}]
  IN  IF "collateralManager" \notin controllersHere THEN failed
      ELSE IF "controller" \notin controllersHere THEN failed
      ELSE IF ~(assets \subseteq listed)
      THEN [failed EXCEPT !.logged = (poolsHere = {})]
      ELSE [rejected |-> FALSE, logged |-> (poolsHere = {}),
            poolContracts |-> {x.name : x \in poolsHere},
            assetContracts |-> assets]

(* contracts.js:11-82, on metadata with controllers on the networks 1    *)
(* and 42, pools on the network 1 only and DAI as the only listed token  *)
getContracts ==
  \E chainId \in {1, 1337, 42, 5},
     pools \in SUBSET { [chainId |-> 1, name |-> "vETH", asset |-> "ETH"],
                        [chainId |-> 1, name |-> "vDAI", asset |-> "DAI"],
                        [chainId |-> 1, name |-> "vFOO", asset |-> "FOO"] } :
    LET controllers ==
          { [chainId |-> n, name |-> c] :
              n \in {1, 42}, c \in {"collateralManager", "controller"} }
        tokens == { [chainId |-> 1, symbol |-> "DAI"],
                    [chainId |-> 42, symbol |-> "DAI"] }
    IN  /\ calcOp = "none"
        /\ calcOp' = "getContracts"
        /\ calcIn' = [chainId |-> chainId, pools |-> pools,
                      controllers |-> controllers]
        /\ calcOut' = Contracts(chainId, controllers, pools, tokens)
        /\ UNCHANGED <<writeVars, proxies>>

(* The unit converters of ./utils on decimal numbers.  The decimal       *)
(* string of digits / 10^scale is held as [digits, scale]; it has no     *)
(* unnecessary trailing zero when scale is 0 or digits does not end in 0 *)
MaxDecimals == 8

RECURSIVE StripZeros(_)
StripZeros(x) ==
  IF x.scale > 0 /\ x.digits % 10 = 0
  THEN StripZeros([digits |-> x.digits \div 10, scale |-> x.scale - 1])
  ELSE x

(* variant: the whole units only *)
fromUnitWhole(value, decimals) ==
  [digits |-> value \div Pow10(decimals), scale |-> 0]

(* variant: all the decimals written, trailing zeros included *)
fromUnitPadded(value, decimals) == [digits |-> value, scale |-> decimals]

(* ./utils fromUnit(value, decimals = 18): value / 10^decimals, exactly, *)
(* without unnecessary trailing zeros                                    *)
fromUnit(value, decimals) ==
  StripZeros([digits |-> value, scale |-> decimals])

(* ./utils toUnit(value, decimals = 18) of a decimal number: value times *)
(* 10^decimals, the fraction below one base unit dropped                 *)
toUnitOf(x, decimals) ==
  IF decimals >= x.scale
  THEN x.digits * Pow10(decimals - x.scale)
  ELSE x.digits \div Pow10(x.scale - decimals)

(* fromUnit(value, decimals), and the amount converted back by toUnit *)
fromUnitCall ==
  \E value \in {0, 1, 10, 123, 1200, 123000000}, decimals \in 0..MaxDecimals :
    /\ calcOp = "none"
    /\ calcOp' = "fromUnit"
    /\ calcIn' = [value |-> value, decimals |-> decimals]
    /\ calcOut' = [value |-> fromUnit(value, decimals),
                   back |-> toUnitOf(fromUnit(value, decimals), decimals)]
    /\ UNCHANGED <<writeVars, proxies>>

(* toUnit(value, decimals) of the decimal strings "0", "1", "2", "1.5",  *)
(* "1.23", "1.239" and "0.005", and the amount converted back by         *)
(* fromUnit                                                              *)
toUnitCall ==
  \E value \in { [digits |-> 0, scale |-> 0], [digits |-> 1, scale |-> 0],
                 [digits |-> 2, scale |-> 0], [digits |-> 15, scale |-> 1],
                 [digits |-> 123, scale |-> 2], [digits |-> 1239, scale |-> 3],
                 [digits |-> 5, scale |-> 3] },
     decimals \in 0..MaxDecimals :
    /\ calcOp = "none"
    /\ calcOp' = "toUnit"
    /\ calcIn' = [value |-> value, decimals |-> decimals]
    /\ calcOut' = [value |-> toUnitOf(value, decimals),
                   back |-> fromUnit(toUnitOf(value, decimals), decimals)]
    /\ UNCHANGED <<writeVars, proxies>>

(* pool-methods.js:56  the default account of the instance *)
from == "0xFrom"

(* The accounts of a migrate that needs a permit.  migrate checks the    *)
(* allowance of _from = transactionOptions.from || from and names _from  *)
(* as the owner in simpleMigrateWithPermit (pool-methods.js:1234,        *)
(* 1259-1273); signPermit reads nonces(from), asks from for the          *)
(* signature and signs the message with owner: from (pool-methods.js:    *)
(* 898, 913, 940).  The option not given is "".                          *)
PermitAccounts(optionsFrom) ==
  LET _from == IF optionsFrom = "" THEN from ELSE optionsFrom
  IN  [allowanceOf |-> _from,
       nonceOf |-> from,
       signer |-> from,
       messageOwner |-> from,
       callOwner |-> _from]

(* pool-methods.js:1231-1327: the accounts of a migrate with a permit *)
migrateWithPermit ==
  \E optionsFrom \in {"", "0xFrom", "0xOther"} :
    /\ calcOp = "none"
    /\ calcOp' = "migrateWithPermit"
    /\ calcIn' = [from |-> optionsFrom]
    /\ calcOut' = PermitAccounts(optionsFrom)
    /\ UNCHANGED <<writeVars, proxies>>

(* pool-methods.js:798-827: the chain before its catch.  It is rejected  *)
(* for a pool that is not of version 1 (getStrategyAddress), for a       *)
(* strategy whose addresses provider is not that of Aave v1, for an ETH  *)
(* pool (getAssetAddress) and when a call fails.                         *)
AvailableLiquidity(version, token, provider, reserve) ==
  IF version # 1 \/ ~provider.ok THEN Rejects
  ELSE IF provider.value # "0xAaveV1" THEN Rejects
  ELSE IF ~token THEN Rejects
  ELSE reserve

(* variant: the liquidity tested as a number, 0 being falsy *)
IsTruthyNumber(max) == max.ok /\ max.value # 0

(* pool-methods.js:834  max && ...: max is null after the catch, and a   *)
(* non-empty string, "0" included, otherwise                             *)
IsTruthy(max) == max.ok

(* pool-methods.js:828-834 *)
MaxWithdrawAmount(max, balance) ==
  IF ~balance.ok THEN Rejected
  ELSE Resolved(IF IsTruthy(max) /\ max.value < balance.value
                THEN max.value
                ELSE balance.value)

(* pool-methods.js:794-846 *)
getMaxWithdrawAmount ==
  \E version \in Versions,
     provider \in {RejectsAddress, Ok("0xAaveV1"), Ok("0xOther")},
     reserve \in {Rejects, Ok(0), Ok(3), Ok(5), Ok(9)},
     balance \in {Rejects, Ok(0), Ok(5)} :
    /\ calcOp = "none"
    /\ calcOp' = "getMaxWithdrawAmount"
    /\ calcIn' = [version |-> version, provider |-> provider,
                  reserve |-> reserve, balance |-> balance]
    /\ calcOut' = MaxWithdrawAmount(
                    AvailableLiquidity(version, isToken, provider, reserve),
                    balance)
    /\ UNCHANGED <<writeVars, proxies>>

(* The iterator functions given to promiseLoop: what fn(i) does at each  *)
(* of the first MaxCalls indexes, fn[i + 1] standing for fn(i)           *)
MaxCalls == 3

(* part_005:162-166.  fn(i) is called while step runs, outside of the    *)
(* chain it starts: an exception of fn leaves step.  The step of index   *)
(* i + 1 runs inside the then of the step of index i, so that its        *)
(* exception is caught by the catch of the step of index i, which gives  *)
(* the results gathered before fn(i).  The result of fn(i) is 10 + i.    *)
RECURSIVE step(_, _, _)
step(fn, acc, i) ==
  IF i >= Len(fn) THEN [state |-> "pending", value |-> acc, calls |-> i]
  ELSE IF fn[i + 1] = "throws"
  THEN [state |-> "threw", value |-> <<>>, calls |-> i + 1]
  ELSE IF fn[i + 1] = "rejects"
  THEN [state |-> "resolved", value |-> acc, calls |-> i + 1]
  ELSE LET next == step(fn, Append(acc, 10 + i), i + 1)
       IN  IF next.state = "threw"
           THEN [state |-> "resolved", value |-> acc, calls |-> next.calls]
           ELSE next

(* part_005:161-168 *)
promiseLoop ==
  \E fn \in [1..MaxCalls -> {"value", "rejects", "throws"}] :
    /\ calcOp = "none"
    /\ calcOp' = "promiseLoop"
    /\ calcIn' = [fn |-> fn]
    /\ calcOut' = step(fn, <<>>, 0)
    /\ UNCHANGED <<writeVars, proxies>>

(* pool-methods.js:1237-1244  getMigrateAmount: the most that can be     *)
(* withdrawn, converted into pool tokens, the dust swept.  Among the     *)
(* amounts is one just above 99.9% of the largest balance, the quotient  *)
(* of which is 0.999 once cut after BigDP decimal places.                *)
getMigrateAmount ==
  \E max \in {1, 999, 1999, 2000, 3000, 1998 * Pow10(BigDP - 3) + 1},
     tokenValue \in {Rejects, Ok(0), Ok(Pow10(TokenDecimals)),
                     Ok(2 * Pow10(TokenDecimals))},
     balance \in {Rejects, Ok(0), Ok(1000), Ok(2000),
                  Ok(2 * Pow10(BigDP))} :
    LET computed == TokenAmount(max, tokenValue.value)
        swept == sweepDust(computed.value, balance.value)
    IN  /\ calcOp = "none"
        /\ calcOp' = "getMigrateAmount"
        /\ calcIn' = [max |-> max, tokenValue |-> tokenValue,
                      balance |-> balance]
        /\ calcOut' =
             IF ~tokenValue.ok \/ computed.threw \/ ~balance.ok
             THEN [rejected |-> TRUE, computed |-> Undefined,
                   value |-> Undefined]
             ELSE IF swept.threw
             THEN [rejected |-> TRUE, computed |-> computed.value,
                   value |-> Undefined]
             ELSE [rejected |-> FALSE, computed |-> computed.value,
                   value |-> swept.value]
        /\ UNCHANGED <<writeVars, proxies>>

CalcNext ==
  \/ getTokenValue
  \/ getMigrateAmount
  \/ promiseLoop
  \/ getMaxWithdrawAmount
  \/ migrateWithPermit
  \/ fromUnitCall
  \/ toUnitCall
  \/ getContracts
  \/ getVspRate
  \/ getVspRewardsRate
  \/ getValueLocked
  \/ withdraw
  \/ getInterestEarned
  \/ getClaimableVsp
  \/ canRebalance
  \/ signPermit

SpecCalc == Init /\ [][CalcNext]_vars

----------------------------------------------------------------------------
(* Properties *)

Deposits == {"deposit", "approveAndDeposit"}

Terminated == pc \in {"completed", "error"}

(* C1: the steps of one operation are submitted in the order of the step   *)
(* list, step i+1 only after the receipt of step i; for a deposit into a   *)
(* token pool whose allowance is too low the approve step is submitted and *)
(* confirmed before the deposit step is submitted.                         *)
C1_StepsInDeclaredOrder ==
  /\ \A k \in DOMAIN submitted : submitted[k] = k
  /\ Len(submitted) <= Len(txs)
  /\ Len(transactionsData) <= Len(submitted)
  /\ Len(submitted) <= Len(transactionsData) + 1
  /\ \A k \in DOMAIN transactionsData : transactionsData[k].transaction.step = k
  /\ (op = "deposit" /\ allowanceSeen # Undefined /\ allowanceSeen < amount) =>
       \A k \in DOMAIN submitted :
         txs[submitted[k]].method = "deposit" =>
           /\ k > 1
           /\ txs[submitted[k - 1]].method = "approve"
           /\ Len(transactionsData) >= k - 1

C1_Witness ==
  /\ op = "deposit" /\ allowanceSeen # Undefined /\ allowanceSeen < amount
  /\ submitted = <<1, 2>>
  /\ pc = "completed"

(* C2: when the gas estimation of step k fails the operation fails with    *)
(* EstimationFailed, no step k or later is submitted, no estimation is     *)
(* made twice, and the steps before k stay executed.                       *)
C2_EstimationFailureAborts ==
  /\ \A i, j \in DOMAIN estimateCalls :
       i # j => estimateCalls[i] # estimateCalls[j]
  /\ (pc = "estimating" /\ estimateCalls # <<>>) =>
       estimateCalls[Len(estimateCalls)] < idx
  /\ (error.present /\ error.kind = "EstimationFailed") =>
       LET k == error.step
       IN  /\ pc = "error"
           /\ k \in DOMAIN txs
           /\ estimateCalls[Len(estimateCalls)] = k
           /\ submitted = [i \in 1..(k - 1) |-> i]
           /\ Len(transactionsData) = k - 1
           /\ ~ENABLED (Send \/ UseGivenGas \/ EstimateGas \/ EstimateGasFails)
           /\ (k = 2 /\ txs[1].method = "approve"
                 /\ transactionsData[1].receipt.status)
                => allowance = txs[1].arg

C2_Witness ==
  /\ error.present /\ error.kind = "EstimationFailed" /\ error.step = 2
  /\ txs[1].method = "approve" /\ transactionsData[1].receipt.status
  /\ allowance = txs[1].arg

(* C3: a failure of a write operation, at whatever stage, reaches the      *)
(* caller: as an error event when a listener of the error event is         *)
(* registered, as a rejection of the returned completion otherwise.        *)
C3_FailureObservable ==
  /\ error.present <=> pc = "error"
  /\ error.present =>
       /\ ~result.present
       /\ IF errorListeners > 0
          THEN events # <<>> /\ events[Len(events)] = "error"
          ELSE promise = "rejected"

C3_Witness ==
  /\ error.present /\ error.stage = "sending" /\ errorListeners > 0
  /\ events[Len(events)] = "error"

RECURSIVE C5_FeesUpTo(_, _)
C5_FeesUpTo(raw, n) ==
  IF n = 0 THEN 0
  ELSE C5_FeesUpTo(raw, n - 1)
         + raw[n].receipt.gasUsed * raw[n].transaction.gasPrice

(* C5: the raw list of a result has one outcome per step, in step order,   *)
(* and fees is the sum of gasUsed x gasPrice over all the outcomes.        *)
C5_RawAndFees ==
  result.present =>
    /\ Len(result.raw) = Len(txs)
    /\ \A i \in DOMAIN result.raw : result.raw[i].transaction.step = i
    /\ result.fees = C5_FeesUpTo(result.raw, Len(txs))

C5_Witness ==
  /\ result.present /\ Len(txs) = 2
  /\ result.raw[1].receipt.gasUsed * result.raw[1].transaction.gasPrice = 2
  /\ result.fees = 3

(* C6: the status of a result is true iff the receipt of every outcome of  *)
(* raw has status true.                                                    *)
C6_StatusIsAndOfReceipts ==
  result.present =>
    (result.status <=>
       \A i \in DOMAIN result.raw : result.raw[i].receipt.status)

C6_Witness ==
  /\ result.present /\ Len(result.raw) = 2 /\ ~result.status
  /\ ~result.raw[1].receipt.status /\ result.raw[2].receipt.status

(* C7: the sent field of the result of deposit and of approveAndDeposit    *)
(* is the deposit amount the caller gave.                                  *)
C7_SentIsDepositAmount ==
  (result.present /\ op \in Deposits) => result.sent = amount

C7_Witness ==
  /\ result.present /\ op = "approveAndDeposit" /\ approveAmount # amount
  /\ result.sent = amount

C8_Matching(receipt) ==
  SelectSeq(EventsNamed(receipt, IF isToken THEN "Deposit" ELSE "Transfer"),
            LAMBDA e : toLowerCase(e.address) = toLowerCase(poolAddress))

(* C8, as stated: once all the steps of a deposit are confirmed the        *)
(* operation yields a result whose received field is the value of the      *)
(* event of the last receipt, or 0 when that receipt has no such event.    *)
C8_ReceivedDefaultsToZero ==
  (op \in Deposits /\ Terminated /\ txs # <<>>
     /\ Len(transactionsData) = Len(txs)) =>
    LET matching == C8_Matching(transactionsData[Len(txs)].receipt)
    IN  /\ result.present
        /\ result.received = IF matching = <<>> THEN 0 ELSE matching[1].value

(* C9: deposit into a token pool builds [deposit] when the allowance read  *)
(* covers the amount (equality included) and [approve, deposit] otherwise. *)
C9_ApproveIffAllowanceTooLow ==
  (op = "deposit" /\ isToken /\ allowanceSeen # Undefined) =>
    txs = IF allowanceSeen >= amount
          THEN << Step("deposit", amount, Undefined, "deposit",
                       expectedGasForDeposit) >>
          ELSE << Step("approve", amount, Undefined, "approve",
                       expectedGasForApproval),
                  Step("deposit", amount, Undefined, "deposit",
                       expectedGasForDeposit) >>

C9_Witness ==
  /\ op = "deposit" /\ isToken /\ allowanceSeen = amount
  /\ Len(txs) = 1 /\ pc = "completed"

(* C10, as stated: deposit and approveAndDeposit on an ETH pool read no    *)
(* allowance and build the single step deposit() with the amount attached  *)
(* as value.                                                               *)
C10_NativeDepositSkipsApproval ==
  (~isToken /\ op \in Deposits /\ pc \notin {"idle", "building"}) =>
    /\ allowanceReads = 0
    /\ Len(txs) = 1
    /\ txs[1].method = "deposit"
    /\ txs[1].value = amount

(* C12: send of a permit proxy never signs; once estimateGas recorded a    *)
(* signature, every send builds the method call with that signature and    *)
(* with the deadline that was signed, the same call as the one estimated.  *)
C12_SendReusesRecordedSignature ==
  /\ Len(signCalls) <= Len(estimateCalls)
  /\ \A i \in DOMAIN methodCalls :
       (methodCalls[i].via = "send" /\ recordedSignature.signed) =>
         /\ methodCalls[i].signature = recordedSignature
         /\ methodCalls[i].deadline = signCalls[Len(signCalls)].deadline
         /\ \E j \in 1..(i - 1) :
              /\ methodCalls[j].via = "estimateGas"
              /\ methodCalls[j].signature = methodCalls[i].signature
              /\ methodCalls[j].deadline = methodCalls[i].deadline

C12_Witness ==
  /\ pc = "completed" /\ op = "migrate"
  /\ \E i \in DOMAIN methodCalls :
       /\ methodCalls[i].via = "send"
       /\ methodCalls[i].signature = SplitSignature(SignatureOf(3, 5))
       /\ methodCalls[i].deadline = ProxyDeadline(MaxTime)

(* C13, as stated: send is never invoked on a permit proxy whose recorded  *)
(* signature is still empty, whether the gas is estimated or given.        *)
C13_SigningBeforeSend ==
  \A i \in DOMAIN methodCalls :
    methodCalls[i].via = "send" => methodCalls[i].signature.signed

(* C14: when the permit cannot be signed the operation fails for good: the *)
(* failed signing request is the only one made and no step is submitted.   *)
C14_SigningFailureIsTerminal ==
  \A i \in DOMAIN signCalls :
    signCalls[i].outcome \in SigningFailures =>
      /\ Len(signCalls) = 1
      /\ pc = "error"
      /\ error.present /\ error.kind = signCalls[i].outcome
      /\ ~result.present
      /\ submitted = <<>>
      /\ \A j \in DOMAIN methodCalls : methodCalls[j].via # "send"
      /\ ~ENABLED Next

C14_Witness ==
  /\ op = "migrate" /\ pc = "error"
  /\ signCalls = << [deadline |-> deadline,
                     outcome |-> "NoSigningCapability"] >>

(* C16, as stated: migrate builds exactly one step and never an approve    *)
(* step: a permit proxy around simpleMigrateWithPermit when the allowance  *)
(* of the helper on the pool token is lower than the amount to migrate,    *)
(* a plain simpleMigrate otherwise.                                        *)
C16_PermitIffAllowanceTooLow ==
  (op = "migrate" /\ txs # <<>>) =>
    /\ Len(txs) = 1
    /\ txs[1].method # "approve"
    /\ txs = IF vakAllowance < amount
             THEN << PermitMigrateStep(amount) >>
             ELSE << PlainMigrateStep(amount) >>

----------------------------------------------------------------------------
(* Properties of the read methods and of the computations (SpecCalc) *)

C15_ByteToHex(v) ==
  << HexDigits[(v \div 16) + 1], HexDigits[(v % 16) + 1] >>

(* C15: signPermit splits a signature of 65 bytes without loss: r is the   *)
(* prefix and the first 64 digits, s the prefix and the next 64 digits, v  *)
(* the number the last two digits make; r, the digits of s and the two     *)
(* digits of v put together are the signature again.                       *)
C15_SplitIsLossless ==
  calcOp = "signPermit" =>
    LET signature == calcIn.signature
    IN  /\ Len(signature) = 132
        /\ calcOut.r = SubSeq(signature, 1, 66)
        /\ calcOut.s = HexPrefix \o SubSeq(signature, 67, 130)
        /\ calcOut.v = HexValue(signature[131]) * 16
                         + HexValue(signature[132])
        /\ calcOut.r \o SubSeq(calcOut.s, 3, 66) \o C15_ByteToHex(calcOut.v)
             = signature

C15_Witness ==
  /\ calcOp = "signPermit"
  /\ calcIn.signature = SignatureOf(10, 5)
  /\ calcOut.v = 27
  /\ calcOut.r # calcOut.s

(* C17, as stated: interestEarned never rejects, whatever the version of   *)
(* the pool and whichever calls fail: it gives the value of the strategy   *)
(* when that query succeeds, else the legacy value when that succeeds,     *)
(* else 0; the legacy path is tried only after the primary one failed.     *)
C17_InterestEarnedNeverFails ==
  calcOp = "getInterestEarned" =>
    LET primary == PrimaryInterestEarned(calcIn.strategyAddress,
                                         calcIn.earned)
        legacy == LegacyInterestEarned(calcIn.strategyAddress,
                                       calcIn.aDaiBalance, calcIn.daiDebt,
                                       calcIn.rate)
    IN  /\ ~calcOut.rejected
        /\ calcOut.legacyTried => ~primary.ok
        /\ calcIn.version = 1 =>
             calcOut.value = IF primary.ok THEN OrZero(primary.value)
                             ELSE IF legacy.ok THEN legacy.value
                             ELSE 0

(* C18: getClaimableVsp never rejects; it gives 0 when the address of the  *)
(* rewards contract is the zero address, when the reward token is not the  *)
(* VSP address or when a call fails, and the claimable balance only when   *)
(* all the calls succeed and the reward token is the VSP address.          *)
C18_ClaimableNeverRejects ==
  calcOp = "getClaimableVsp" =>
    LET allOk == /\ calcIn.rewardsAddress.ok
                 /\ calcIn.claimable.ok
                 /\ calcIn.rewardToken.ok
        usable == /\ allOk
                  /\ calcIn.rewardsAddress.value # ZERO_ADDRESS
                  /\ calcIn.rewardToken.value = vspAddress
    IN  /\ ~calcOut.rejected
        /\ calcOut.value = IF usable THEN calcIn.claimable.value ELSE 0

C18_Witness ==
  /\ calcOp = "getClaimableVsp"
  /\ calcIn.rewardsAddress = Ok(ZERO_ADDRESS)
  /\ calcIn.claimable = Ok(5)
  /\ calcIn.rewardToken = Ok(vspAddress)
  /\ calcOut = Resolved(0)

(* C19: canRebalance gives a truthy value only if tokensHere is above zero *)
(* and the estimation of the gas of rebalance succeeded; it gives false    *)
(* when the estimation fails, and false without estimating when tokensHere *)
(* is zero.                                                                *)
C19_CanRebalance ==
  calcOp = "canRebalance" =>
    LET truthy == ~calcOut.rejected /\ ~calcOut.isFalse /\ calcOut.gas > 0
    IN  /\ truthy => /\ calcIn.tokensHere.ok
                      /\ calcIn.tokensHere.value > 0
                      /\ calcIn.estimate.ok
                      /\ calcOut.estimated
        /\ (calcOut.estimated /\ ~calcIn.estimate.ok) =>
             (~calcOut.rejected /\ calcOut.isFalse)
        /\ (calcIn.tokensHere.ok /\ calcIn.tokensHere.value = 0) =>
             (~calcOut.rejected /\ calcOut.isFalse /\ ~calcOut.estimated)

C19_Witness ==
  /\ calcOp = "canRebalance" /\ calcIn.version = 1
  /\ calcIn.tokensHere = Ok(5) /\ calcIn.estimate = Rejects
  /\ calcOut.estimated /\ calcOut.isFalse /\ ~calcOut.rejected

(* C20: the token value of a pool without supply is one unit of the        *)
(* deposit asset, 10^assetDecimals; otherwise it is totalValue divided by  *)
(* totalSupply, in pool-token decimals, the fraction dropped; no division  *)
(* by a zero supply is made.                                               *)
C20_TokenValue ==
  (calcOp = "getTokenValue" /\ calcIn.totalSupply.ok
     /\ calcIn.totalValue.ok) =>
    /\ ~calcOut.rejected
    /\ calcOut.value =
         IF calcIn.totalSupply.value = 0
         THEN Pow10(calcIn.assetDecimals)
         ELSE (calcIn.totalValue.value * Pow10(TokenDecimals))
                \div calcIn.totalSupply.value

C20_Witness ==
  /\ calcOp = "getTokenValue"
  /\ calcIn.totalSupply = Ok(0) /\ calcIn.totalValue = Ok(1000)
  /\ calcIn.assetDecimals = 1
  /\ calcOut = Resolved(10)

(* C21 as stated, with a rate of 1 for USDC: the value locked of a USDC  *)
(* pool is totalValue / 10^assetDecimals, and the router is not asked.   *)
C21_RateOneForUSDC ==
  (calcOp = "getValueLocked" /\ ~calcOut.rejected /\ calcIn.asset = "USDC")
    => /\ calcOut.routerCalls = <<>>
       /\ calcOut.value =
            (calcIn.totalValue.value * 1) \div Pow10(calcIn.assetDecimals)

(* C21: valueLocked is totalValue * rate / 10^assetDecimals, the fraction *)
(* dropped, where rate is the answer of the router for one whole unit of  *)
(* the asset (10^assetDecimals base units) on the path to USDC; for a     *)
(* USDC pool the router is not asked and rate is one whole unit of USDC,  *)
(* 10^assetDecimals base units, so that valueLocked is totalValue.        *)
C21_ValueLocked ==
  (calcOp = "getValueLocked" /\ ~calcOut.rejected)
    => LET one == Pow10(calcIn.assetDecimals)
           tv == calcIn.totalValue.value
       IN  IF calcIn.asset = "USDC"
           THEN calcOut.routerCalls = <<>> /\ calcOut.value = tv
           ELSE /\ Len(calcOut.routerCalls) = 1
                /\ calcOut.routerCalls[1].amount = one
                /\ calcOut.routerCalls[1].path[1]
                     = (IF isToken THEN calcIn.asset ELSE "WETH")
                /\ calcOut.routerCalls[1].path[
                       Len(calcOut.routerCalls[1].path)] = "USDC"
                /\ calcOut.value = (tv * calcIn.answer.value) \div one

(* a DAI pool of 15 base units, at a rate of 100 for one whole DAI: the   *)
(* fraction of the value is dropped                                      *)
C21_Witness ==
  /\ calcOp = "getValueLocked"
  /\ calcIn.asset = "DAI"
  /\ calcIn.assetDecimals = TokenDecimals
  /\ calcIn.totalValue = Ok(15)
  /\ calcIn.answer = Ok(100)
  /\ calcOut.value = (15 * 100) \div Pow10(TokenDecimals)
  /\ Len(calcOut.routerCalls) = 1

(* C22: getVspRate(toToken) and getVspRewardsRate never throw and never  *)
(* reject: they resolve, and to 0 when the VSP address is missing, when  *)
(* the router or a call of the rewards contract fails, when the rewards  *)
(* address is the zero address and when the target token is unknown.     *)
C22_RatesNeverReject ==
  /\ (calcOp = "getVspRate")
       => /\ ~calcOut.threw /\ ~calcOut.rejected
          /\ (\/ ~calcIn.hasVspAddress
              \/ ~TokenIsKnown(calcIn.toToken)
              \/ (calcIn.toToken # "VSP" /\ ~calcIn.answer.ok))
               => calcOut.value = 0
  /\ (calcOp = "getVspRewardsRate")
       => /\ ~calcOut.threw /\ ~calcOut.rejected
          /\ (\/ ~calcIn.rewardsAddress.ok
              \/ calcIn.rewardsAddress.value = ZERO_ADDRESS
              \/ ~calcIn.rewardRate.ok
              \/ ~calcIn.rewardToken.ok)
               => calcOut.value = 0

(* C23: when no pool of the metadata is on the active network, the       *)
(* condition is logged and getContracts resolves, with no pool and no    *)
(* asset contract, on every network, those without a controller          *)
(* included.                                                             *)
C23_NoPoolIsNotFatal ==
  (/\ calcOp = "getContracts"
   /\ \A x \in calcIn.pools : x.chainId # ChainIdOf(calcIn.chainId))
    => /\ ~calcOut.rejected
       /\ calcOut.logged
       /\ calcOut.poolContracts = {}
       /\ calcOut.assetContracts = {}

(* C24: toUnit(fromUnit(x, d), d) = x for every amount x of base units   *)
(* and every number of decimals d >= 0; fromUnit(123000000, 8) is 1.23.  *)
C24_RoundTrip ==
  (calcOp = "fromUnit")
    => /\ calcOut.back = calcIn.value
       /\ calcOut.value.scale <= calcIn.decimals
       /\ (calcOut.value.scale = 0 \/ calcOut.value.digits % 10 # 0)

(* fromUnit('123000000', 8) = '1.23' and toUnit('1.23', 8) = '123000000' *)
C24_Witness ==
  /\ calcOp = "fromUnit"
  /\ calcIn = [value |-> 123000000, decimals |-> 8]
  /\ calcOut.value = [digits |-> 123, scale |-> 2]
  /\ calcOut.back = 123000000

(* C25 as stated: fromUnit(toUnit(x, d), d) = x for every non-negative   *)
(* decimal string x and every number of decimals d.                      *)
C25_ReverseRoundTripAlways ==
  (calcOp = "toUnit") => calcOut.back = calcIn.value

(* C25: fromUnit(toUnit(x, d), d) = x for every non-negative decimal     *)
(* string x without unnecessary zeros that has at most d decimals; for a *)
(* string with more decimals toUnit drops those after the d-th, and the  *)
(* round trip gives x cut to d decimals.                                 *)
C25_ReverseRoundTrip ==
  (calcOp = "toUnit")
    => /\ (calcIn.value.scale <= calcIn.decimals)
            => calcOut.back = calcIn.value
       /\ (calcIn.value.scale > calcIn.decimals)
            => /\ calcOut.back # calcIn.value
               /\ calcOut.back
                    = fromUnit(calcIn.value.digits
                                 \div Pow10(calcIn.value.scale
                                              - calcIn.decimals),
                               calcIn.decimals)

(* toUnit('1.23', 8) = '123000000', and back *)
C25_Witness ==
  /\ calcOp = "toUnit"
  /\ calcIn = [value |-> [digits |-> 123, scale |-> 2], decimals |-> 8]
  /\ calcOut.value = 123000000
  /\ calcOut.back = [digits |-> 123, scale |-> 2]

(* C27: in a migrate that uses a permit, the owner of the signed permit  *)
(* message, the account whose nonce is fetched, the account whose        *)
(* allowance was checked and the owner passed to simpleMigrateWithPermit *)
(* are one account, also when transactionOptions.from is not the default *)
(* account of the instance.                                              *)
C27_PermitOwnerIsCaller ==
  (calcOp = "migrateWithPermit")
    => /\ calcOut.messageOwner = calcOut.allowanceOf
       /\ calcOut.nonceOf = calcOut.allowanceOf
       /\ calcOut.callOwner = calcOut.allowanceOf

(* C29: getMaxWithdrawAmount is rejected only when the deposited balance *)
(* cannot be read, never because of the lookup of the liquidity of Aave, *)
(* and never gives more than the deposited balance: it gives the         *)
(* liquidity when the lookup succeeded and the liquidity is strictly     *)
(* below the balance, a liquidity of 0 included, and the balance when    *)
(* the lookup failed, the pool is not of version 1, the strategy is not  *)
(* of Aave v1, the pool is an ETH pool or the liquidity is not below.    *)
C29_MaxWithdrawAmount ==
  (calcOp = "getMaxWithdrawAmount")
    => LET lookedUp == /\ calcIn.version = 1
                       /\ isToken
                       /\ calcIn.provider = Ok("0xAaveV1")
                       /\ calcIn.reserve.ok
       IN  /\ calcOut.rejected <=> ~calcIn.balance.ok
           /\ ~calcOut.rejected
                => /\ calcOut.value <= calcIn.balance.value
                   /\ calcOut.value =
                        IF lookedUp
                           /\ calcIn.reserve.value < calcIn.balance.value
                        THEN calcIn.reserve.value
                        ELSE calcIn.balance.value

(* a liquidity of 0 below a balance of 5 *)
C29_Witness ==
  /\ calcOp = "getMaxWithdrawAmount"
  /\ calcIn.version = 1
  /\ isToken
  /\ calcIn.provider = Ok("0xAaveV1")
  /\ calcIn.reserve = Ok(0)
  /\ calcIn.balance = Ok(5)
  /\ calcOut = Resolved(0)

(* C30: promiseLoop(fn) calls fn(0), fn(1), ... in order and stops at    *)
(* the first index k where fn throws or rejects; it then resolves to the *)
(* k results fn(0), ..., fn(k-1) in the order of the indexes, having     *)
(* called no index above k, and it goes on as long as fn does not fail.  *)
C30_PromiseLoop ==
  (calcOp = "promiseLoop")
    => LET failing == {i \in 1..MaxCalls : calcIn.fn[i] # "value"}
       IN  IF failing = {}
           THEN calcOut.state = "pending"
           ELSE LET k == (CHOOSE i \in failing :
                            \A j \in failing : i <= j) - 1
                IN  /\ calcOut.state = "resolved"
                    /\ calcOut.calls = k + 1
                    /\ calcOut.value = [i \in 1..k |-> 10 + (i - 1)]

(* C28: for a caller with a positive balance of pool tokens, the amount  *)
(* of pool tokens of a withdraw or migrate step never exceeds the        *)
(* balance read by sweepDust: a computed amount above 99.9% of the       *)
(* balance, above 100% included, is replaced by the balance, and any     *)
(* other amount is kept.                                                 *)
C28_SweptAmountWithinBalance ==
  ((calcOp = "withdraw" \/ calcOp = "getMigrateAmount")
   /\ ~calcOut.rejected /\ calcIn.balance.value > 0)
    => LET computed == calcOut.computed
           balance == calcIn.balance.value
           placed == IF calcOp = "withdraw" THEN calcOut.txs[1].arg
                     ELSE calcOut.value
       IN  /\ placed <= balance
           /\ (computed * 1000 > 999 * balance) => placed = balance
           /\ (computed * 1000 <= 999 * balance) => placed = computed

----------------------------------------------------------------------------
(* Properties of the permit proxies side by side (SpecProxies) *)

(* C26: however the operations of two permit proxies interleave, the     *)
(* send of each proxy uses the deadline and the signature that the       *)
(* estimateGas of the same proxy used and recorded, never those of the   *)
(* other proxy, and the deadline is the one set when it was created.     *)
C26_ProxiesShareNothing ==
  \A p \in 1..MaxProxies :
    /\ (proxies[p].estimated # <<>> /\ proxies[p].sent # <<>>)
         => /\ proxies[p].sent[1].signature
                 = proxies[p].estimated[1].signature
            /\ proxies[p].sent[1].deadline
                 = proxies[p].estimated[1].deadline
    /\ proxies[p].sent # <<>>
         => proxies[p].sent[1].deadline = proxies[p].deadline
    /\ proxies[p].signing # <<>>
         => proxies[p].signing[1] = proxies[p].deadline

(* two proxies that signed and sent, with two deadlines and two          *)
(* signatures                                                            *)
C26_Witness ==
  /\ proxies[1].estimated # <<>> /\ proxies[1].sent # <<>>
  /\ proxies[2].estimated # <<>> /\ proxies[2].sent # <<>>
  /\ proxies[1].sent[1].signature # proxies[2].sent[1].signature
  /\ proxies[1].sent[1].deadline # proxies[2].sent[1].deadline
  /\ proxies[1].sent[1].signature.signed

====
